---- MODULE Spec2Model ----
(***************************************************************************)
(* A model of Covid19dataanalysis.py: the session state of                 *)
(* CovidAnalysisApp (data_loaded, df_us, the text of the output widget),   *)
(* the load handler load_and_prepare_data with the pandas pipeline it      *)
(* runs (filter, drop, melt, to_datetime, merge, diff, fillna, clip), and  *)
(* the five read handlers behind the other buttons.                        *)
(*                                                                         *)
(* The remote CSV files are the environment.  A raw wide table is          *)
(*   [has_country, columns, rows]                                          *)
(* where columns is the header without 'Country/Region' (has_country says  *)
(* whether that column exists), and each row is [country, cells] with      *)
(* cells aligned to columns.  A cell is <<v>> for the number v and <<>>    *)
(* for an empty CSV field, which read_csv turns into NaN.                  *)
(* A column is [name, m, d, y]: name is the header text for an identifier  *)
(* column, and the shape of the text ("m/d/y", or "0m/d/y" for a           *)
(* zero-padded month) for a column headed by three numbers.                *)
(***************************************************************************)
EXTENDS Integers, Sequences, FiniteSets

VARIABLES
    confirmed_src,  \* the confirmed-cases file as it will stand once every day is published
    deaths_src,     \* the deaths file, likewise
    day,            \* how many of the date columns the remote source has published so far
    data_loaded,    \* self.data_loaded
    df_us,          \* self.df_us
    output,         \* the text of self.output (QTextEdit)
    event,          \* what the last handler did that the user can observe
    loaded_day      \* history: the value of day at the last successful load (0 before any)

vars == <<confirmed_src, deaths_src, day, data_loaded, df_us, output, event, loaded_day>>

\* Bounds of the model.
MaxDates == 3       \* date columns per raw table
MaxRows == 2        \* rows per raw table

(***************************************************************************)
(* Values.                                                                 *)
(***************************************************************************)
NaN == <<>>
Some(v) == <<v>>
IsNaN(c) == c = <<>>

None == [kind |-> "None", rows |-> <<>>]
DataFrame(rows) == [kind |-> "DataFrame", rows |-> rows]

Column(name, m, d, y) == [name |-> name, m |-> m, d |-> d, y |-> y]
IdColumn(name) == Column(name, 0, 0, 0)

RECURSIVE SelectSeq2(_, _, _)
\* The subsequence of s at the indices i >= from for which keep[i] holds.
SelectSeq2(s, keep, from) ==
    IF from > Len(s) THEN <<>>
    ELSE (IF keep[from] THEN <<s[from]>> ELSE <<>>) \o SelectSeq2(s, keep, from + 1)

RECURSIVE Flatten(_)
Flatten(ss) == IF ss = <<>> THEN <<>> ELSE Head(ss) \o Flatten(Tail(ss))

(***************************************************************************)
(* The pandas operations of load_and_prepare_data, as the code applies     *)
(* them.  An operation that can raise returns [ok, error, ...].            *)
(***************************************************************************)

\* df[df['Country/Region'] == 'US']: the rows of the target region, in order.
\* Indexing a frame that has no 'Country/Region' column raises KeyError.
FilterCountry(t) ==
    IF ~t.has_country
    THEN [ok |-> FALSE, error |-> "KeyError", table |-> t]
    ELSE [ok |-> TRUE, error |-> "",
          table |-> [t EXCEPT !.rows = SelectSeq(t.rows, LAMBDA r : r.country = "US")]]

Dropped == {"Province/State", "Lat", "Long"}

\* .drop(['Province/State', 'Lat', 'Long'], axis=1, errors='ignore')
DropColumns(t) ==
    LET keep == [j \in 1..Len(t.columns) |-> t.columns[j].name \notin Dropped]
    IN  [t EXCEPT !.columns = SelectSeq2(t.columns, keep, 1),
                  !.rows = [i \in 1..Len(t.rows) |->
                               [t.rows[i] EXCEPT !.cells = SelectSeq2(t.rows[i].cells, keep, 1)]]]

\* .melt(id_vars=['Country/Region'], var_name='date', value_name=...): one long row
\* per (column, row), column-major: every row of the first column, then the second.
Melt(t) ==
    Flatten([j \in 1..Len(t.columns) |->
                [i \in 1..Len(t.rows) |->
                    [date |-> t.columns[j], value |-> t.rows[i].cells[j]]]])

\* %y: two-digit years 69..99 are 1969..1999, 00..68 are 2000..2068.
Century(y) == IF y >= 69 THEN 1900 + y ELSE 2000 + y

IsLeap(year) == (year % 4 = 0 /\ year % 100 # 0) \/ year % 400 = 0

DaysInMonth(m, year) ==
    IF m = 2 THEN (IF IsLeap(year) THEN 29 ELSE 28)
    ELSE IF m \in {4, 6, 9, 11} THEN 30 ELSE 31

\* Whether a header text matches format "%m/%d/%y" and names a day that exists.
\* %m and %d take one or two digits, so "1/22/20" and "01/22/20" both match.
Parses(col) ==
    /\ col.name \in {"m/d/y", "0m/d/y"}
    /\ col.y \in 0..99
    /\ col.m \in 1..12
    /\ col.d \in 1..DaysInMonth(col.m, Century(col.y))

\* The calendar date a header text parses to, as the number yyyymmdd.
Strptime(col) == Century(col.y) * 10000 + col.m * 100 + col.d

\* pd.to_datetime(df['date'], format="%m/%d/%y"): every element is parsed; one that
\* does not match raises ValueError.  An empty column parses to an empty column.
ToDatetime(long) ==
    IF \E i \in 1..Len(long) : ~Parses(long[i].date)
    THEN [ok |-> FALSE, error |-> "ValueError", rows |-> <<>>]
    ELSE [ok |-> TRUE, error |-> "",
          rows |-> [i \in 1..Len(long) |-> [long[i] EXCEPT !.date = Strptime(long[i].date)]]]

\* Merge with how='left': a left row without a partner is kept, with NaN.
MergeLeft(left, right) ==
    Flatten([i \in 1..Len(left) |->
        IF \A k \in 1..Len(right) : left[i].date # right[k].date
        THEN <<[date |-> left[i].date, total_cases |-> left[i].value, total_deaths |-> NaN]>>
        ELSE Flatten([k \in 1..Len(right) |->
                IF left[i].date = right[k].date
                THEN <<[date |-> left[i].date,
                        total_cases |-> left[i].value,
                        total_deaths |-> right[k].value]>>
                ELSE <<>>])])

\* pd.merge(left[['date','total_cases']], right[['date','total_deaths']], on='date'):
\* how='inner', sort=False.  Every pair of a left and a right row with equal date,
\* in the order of the left rows (and of the right rows within one left row).
Merge(left, right) ==
    Flatten([i \in 1..Len(left) |->
        Flatten([k \in 1..Len(right) |->
            IF left[i].date = right[k].date
            THEN <<[date |-> left[i].date,
                    total_cases |-> left[i].value,
                    total_deaths |-> right[k].value]>>
            ELSE <<>>])])

\* Series.diff(): element i minus element i-1; NaN in the first place and wherever
\* either operand is NaN.
Diff(col) ==
    [i \in 1..Len(col) |->
        IF i = 1 \/ IsNaN(col[i]) \/ IsNaN(col[i - 1]) THEN NaN
        ELSE Some(col[i][1] - col[i - 1][1])]

\* fillna(v) on one value.
Fillna(c, v) == IF IsNaN(c) THEN Some(v) ELSE c

\* No clip at all.
ClipNothing(c, lo) == c

\* clip(lower=lo) on one value; NaN stays NaN.
ClipLower(c, lo) == IF IsNaN(c) THEN c ELSE IF c[1] < lo THEN Some(lo) ELSE c

\* Lines 71-74: new_cases and new_deaths from the merged rows.
Derive(merged) ==
    LET dc == Diff([i \in 1..Len(merged) |-> merged[i].total_cases])
        dd == Diff([i \in 1..Len(merged) |-> merged[i].total_deaths])
    IN  [i \in 1..Len(merged) |->
            [date |-> merged[i].date,
             total_cases |-> merged[i].total_cases,
             total_deaths |-> merged[i].total_deaths,
             new_cases |-> ClipLower(Fillna(dc[i], 0), 0),
             new_deaths |-> ClipLower(Fillna(dd[i], 0), 0)]]

\* Line 75: df_us.fillna(0, inplace=True), on every column.
FillFrame(rows) ==
    [i \in 1..Len(rows) |->
        [date |-> rows[i].date,
         total_cases |-> Fillna(rows[i].total_cases, 0),
         total_deaths |-> Fillna(rows[i].total_deaths, 0),
         new_cases |-> Fillna(rows[i].new_cases, 0),
         new_deaths |-> Fillna(rows[i].new_deaths, 0)]]

\* Lines 57-67 for one of the two tables: the long, date-parsed rows of the region.
Reshape(t) ==
    LET f == FilterCountry(t)
    IN  IF ~f.ok THEN [ok |-> FALSE, error |-> f.error, rows |-> <<>>]
        ELSE ToDatetime(Melt(DropColumns(f.table)))

\* Line 70: the local df_us right after the merge.
Merged(confirmed, deaths) == Merge(Reshape(confirmed).rows, Reshape(deaths).rows)

Failure(e) == [ok |-> FALSE, error |-> e, rows |-> <<>>]

\* The body of the try block up to line 75.  fetch says which read_csv call, if
\* any, raises.  Both tables are filtered before either is melted or parsed, so a
\* KeyError of the deaths table comes before a ValueError of the confirmed one.
Prepare(confirmed, deaths, fetch) ==
    IF fetch # "ok" THEN Failure("URLError")
    ELSE IF ~FilterCountry(confirmed).ok \/ ~FilterCountry(deaths).ok THEN Failure("KeyError")
    ELSE IF ~Reshape(confirmed).ok \/ ~Reshape(deaths).ok THEN Failure("ValueError")
    ELSE [ok |-> TRUE, error |-> "",
          rows |-> FillFrame(Derive(Merged(confirmed, deaths)))]

(***************************************************************************)
(* What the read handlers compute from self.df_us.                         *)
(***************************************************************************)
ColumnOf(rows, name) ==
    [i \in 1..Len(rows) |->
        CASE name = "total_cases" -> rows[i].total_cases
          [] name = "total_deaths" -> rows[i].total_deaths
          [] name = "new_cases" -> rows[i].new_cases
          [] OTHER -> rows[i].new_deaths]

PresentValues(col) == {col[i][1] : i \in {k \in 1..Len(col) : ~IsNaN(col[k])}}

\* Series.max(): the largest value that is not NaN; NaN when there is none, as for
\* a column without rows.
MaxOf(col) ==
    LET vs == PresentValues(col)
    IN  IF vs = {} THEN NaN ELSE Some(CHOOSE v \in vs : \A w \in vs : w <= v)

RECURSIVE SumOf(_)
SumOf(col) ==
    IF Len(col) = 0 THEN 0
    ELSE (IF IsNaN(Head(col)) THEN 0 ELSE Head(col)[1]) + SumOf(Tail(col))

CountOf(col) == Cardinality({k \in 1..Len(col) : ~IsNaN(col[k])})

\* The quotient cut to two decimals instead of rounded.
Format2fTruncated(sum, count) == (100 * sum) \div count

\* f"{sum/count:.2f}" as a number of hundredths: the quotient rounded to the
\* nearest hundredth, a tie to the even one (a quotient that lies exactly between
\* two hundredths is a number of eighths here, which a float holds exactly).
\* The quotient is never negative: new_cases is clipped at 0.
Format2f(sum, count) ==
    LET q == (100 * sum) \div count
        r == (100 * sum) % count
    IN  IF 2 * r > count THEN q + 1
        ELSE IF 2 * r < count THEN q
        ELSE IF q % 2 = 0 THEN q ELSE q + 1

\* Series.mean() of new_cases, formatted (line 90 and line 96).
MeanOf(col) == Format2f(SumOf(col), CountOf(col))

\* The text of the output widget.
Text(kind, total_cases, total_deaths, avg_new_cases) ==
    [kind |-> kind, total_cases |-> total_cases, total_deaths |-> total_deaths,
     avg_new_cases |-> avg_new_cases]

Blank == Text("", 0, 0, 0)
NotReadyText == Text("Please load the data first.", 0, 0, 0)
LoadedText == Text("Data loaded and analyzed successfully.", 0, 0, 0)
SummaryText(total_cases, total_deaths, avg) ==
    Text("Summary of Findings", total_cases, total_deaths, avg)

\* What a handler did: effect is "text" (it set the output widget), "plot" (it
\* opened a figure and plotted value), "dialog" (QMessageBox.critical), "raise"
\* (an exception left the handler) or "nothing".
Event(op, effect, value) == [op |-> op, effect |-> effect, value |-> value]

ReadOps == {"show_summary", "plot_total_cases", "plot_new_cases",
            "plot_correlation", "plot_bar"}

(***************************************************************************)
(* The remote source.  It publishes one more date column per day; a load   *)
(* fetches the files as they stand on the day of the load.                 *)
(***************************************************************************)
Min(a, b) == IF a < b THEN a ELSE b

Remote(src, k) ==
    LET n == Min(k, Len(src.date_columns))
        ids == Len(src.id_columns)
    IN  [has_country |-> src.has_country,
         columns |-> src.id_columns \o SubSeq(src.date_columns, 1, n),
         rows |-> [i \in 1..Len(src.rows) |->
                     [country |-> src.rows[i].country,
                      cells |-> [j \in 1..ids |-> NaN] \o SubSeq(src.rows[i].cells, 1, n)]]]

(***************************************************************************)
(* The raw tables the model starts from.                                   *)
(***************************************************************************)
Source(has_country, id_columns, date_columns, rows) ==
    [has_country |-> has_country, id_columns |-> id_columns,
     date_columns |-> date_columns, rows |-> rows]

Row(country, cells) == [country |-> country, cells |-> cells]

\* The k-th day of the source's calendar: 12/31/99, then 1/22/20, 1/23/20, ...
Calendar(k) == IF k = 1 THEN Column("m/d/y", 12, 31, 99) ELSE Column("m/d/y", 1, 20 + k, 20)

StdIds == <<IdColumn("Province/State"), IdColumn("Lat"), IdColumn("Long")>>

Dates == 1..MaxDates

Sorted == [j \in Dates |-> Calendar(j)]

ColumnOrders == {p \in [Dates -> Dates] : \A i, j \in Dates : i # j => p[i] # p[j]}

\* A cumulative series: unit, 2*unit, 3*unit, ...
Rising(unit) == [j \in Dates |-> Some(unit * j)]

\* A series that starts at unit and goes up or down by unit at every step
\* (down is a revision of the source), with at most one empty cell.
StepSeries(unit) ==
    {[j \in Dates |->
        IF j = hole THEN NaN
        ELSE Some(unit * (1 + Cardinality({k \in 1..(j - 1) : up[k]})
                            - Cardinality({k \in 1..(j - 1) : ~up[k]})))] :
        up \in [1..(MaxDates - 1) -> BOOLEAN], hole \in 0..MaxDates}

Countries == {"US", "Canada"}

CountrySeqs == UNION {[1..n -> Countries] : n \in 0..MaxRows}

\* Row i of a table holds the series i*unit, 2*i*unit, ...
RowsOf(countries, unit) ==
    [i \in 1..Len(countries) |-> Row(countries[i], Rising(unit * i))]

Plain(date_columns, cells) == Source(TRUE, StdIds, date_columns, <<Row("US", cells)>>)

\* The cell values vary: revisions and empty cells in one of the two series.
ValueScenarios ==
    {<<Plain(Sorted, s), Plain(Sorted, Rising(1))>> : s \in StepSeries(10)}
    \cup {<<Plain(Sorted, Rising(10)), Plain(Sorted, s)>> : s \in StepSeries(1)}

\* The headers vary: the date columns in any order, the last one possibly replaced
\* by the zero-padded spelling of the first or by a day that does not exist; the
\* deaths file in calendar order or reversed, possibly one day ahead.
ConfirmedHeaders ==
    {[j \in Dates |->
        IF j < MaxDates \/ last = "same" THEN Calendar(p[j])
        ELSE IF last = "padded" THEN [Calendar(p[1]) EXCEPT !.name = "0m/d/y"]
        ELSE Column("m/d/y", 2, 30, 20)] :
        p \in ColumnOrders, last \in {"same", "padded", "invalid"}}

DeathsHeaders ==
    {[j \in Dates |-> Calendar((IF reversed THEN MaxDates + 1 - j ELSE j) + ahead)] :
        reversed \in BOOLEAN, ahead \in {0, 1}}

HeaderScenarios ==
    {<<Plain(hc, Rising(10)), Plain(hd, Rising(1))>> :
        hc \in ConfirmedHeaders, hd \in DeathsHeaders}

\* The rows vary: none, one or several per file, of the target region or not.
RowScenarios ==
    {<<Source(TRUE, StdIds, Sorted, RowsOf(cc, 10)), Source(TRUE, StdIds, Sorted, RowsOf(cd, 1))>> :
        cc \in CountrySeqs, cd \in CountrySeqs}

\* The identifier columns vary: none but the country, one the code does not drop,
\* or no country column in one of the files.
SchemaScenarios ==
    {<<Source(kc, ids, Sorted, <<Row("US", Rising(10))>>),
       Source(kd, StdIds, Sorted, <<Row("US", Rising(1))>>)>> :
        kc \in BOOLEAN, kd \in BOOLEAN,
        ids \in {<<>>, StdIds, StdIds \o <<IdColumn("Population")>>}}

Scenarios == ValueScenarios \cup HeaderScenarios \cup RowScenarios \cup SchemaScenarios

(***************************************************************************)
(* The state machine.                                                      *)
(***************************************************************************)
\* __init__, lines 18-19 and 28: nothing loaded, an empty output widget.  The
\* source has published its first day.
Init ==
    /\ \E sc \in Scenarios : confirmed_src = sc[1] /\ deaths_src = sc[2]
    /\ day = 1
    /\ data_loaded = FALSE
    /\ df_us = None
    /\ output = Blank
    /\ event = Event("init", "nothing", <<>>)
    /\ loaded_day = 0

\* The source publishes the next day's column.
Publish ==
    /\ day < MaxDates
    /\ day' = day + 1
    /\ UNCHANGED <<confirmed_src, deaths_src, data_loaded, df_us, output, event, loaded_day>>

\* Load with line 78 moved to the top of the try block.
LoadFlagFirst ==
    \E fetch \in {"ok", "confirmed fails", "deaths fails"} :
        LET r == Prepare(Remote(confirmed_src, day), Remote(deaths_src, day), fetch)
        IN  /\ data_loaded' = TRUE
            /\ IF r.ok
               THEN /\ df_us' = DataFrame(r.rows)
                    /\ output' = LoadedText
                    /\ event' = Event("load", "text", <<>>)
                    /\ loaded_day' = day
               ELSE /\ event' = Event("load", "dialog", <<r.error>>)
                    /\ UNCHANGED <<df_us, output, loaded_day>>
            /\ UNCHANGED <<confirmed_src, deaths_src, day>>

\* Load that installs a table only while none is held.
LoadKeepsFirst ==
    \E fetch \in {"ok", "confirmed fails", "deaths fails"} :
        LET r == Prepare(Remote(confirmed_src, day), Remote(deaths_src, day), fetch)
        IN  /\ IF r.ok
               THEN /\ df_us' = IF df_us = None THEN DataFrame(r.rows) ELSE df_us
                    /\ data_loaded' = TRUE
                    /\ output' = LoadedText
                    /\ event' = Event("load", "text", <<>>)
                    /\ loaded_day' = day
               ELSE /\ event' = Event("load", "dialog", <<r.error>>)
                    /\ UNCHANGED <<df_us, data_loaded, output, loaded_day>>
            /\ UNCHANGED <<confirmed_src, deaths_src, day>>

\* load_and_prepare_data, lines 49-81.
Load ==
    \E fetch \in {"ok", "confirmed fails", "deaths fails"} :
        LET r == Prepare(Remote(confirmed_src, day), Remote(deaths_src, day), fetch)
        IN  /\ IF r.ok
               THEN /\ df_us' = DataFrame(r.rows)
                    /\ data_loaded' = TRUE
                    /\ output' = LoadedText
                    /\ event' = Event("load", "text", <<>>)
                    /\ loaded_day' = day
               ELSE /\ event' = Event("load", "dialog", <<r.error>>)
                    /\ UNCHANGED <<df_us, data_loaded, output, loaded_day>>
            /\ UNCHANGED <<confirmed_src, deaths_src, day>>

\* show_summary, lines 83-100.  int() of the NaN that max() gives for a frame
\* without rows raises ValueError before the text is set.
ShowSummary ==
    /\ IF ~data_loaded
       THEN /\ output' = NotReadyText
            /\ event' = Event("show_summary", "text", <<>>)
       ELSE LET total_cases == MaxOf(ColumnOf(df_us.rows, "total_cases"))
                total_deaths == MaxOf(ColumnOf(df_us.rows, "total_deaths"))
            IN  IF IsNaN(total_cases) \/ IsNaN(total_deaths)
                THEN /\ event' = Event("show_summary", "raise", <<"ValueError">>)
                     /\ UNCHANGED output
                ELSE /\ output' = SummaryText(total_cases[1], total_deaths[1],
                                              MeanOf(ColumnOf(df_us.rows, "new_cases")))
                     /\ event' = Event("show_summary", "text", <<>>)
    /\ UNCHANGED <<confirmed_src, deaths_src, day, data_loaded, df_us, loaded_day>>

\* A plot that keeps the plotted frame sorted by date, latest first, in self.df_us.
PlotSeriesInPlace(op, name) ==
    /\ event' = IF data_loaded
                THEN Event(op, "plot",
                           [i \in 1..Len(df_us.rows) |->
                               <<df_us.rows[i].date, ColumnOf(df_us.rows, name)[i]>>])
                ELSE Event(op, "nothing", <<>>)
    /\ df_us' = IF data_loaded
                THEN DataFrame([i \in 1..Len(df_us.rows) |->
                                   df_us.rows[Len(df_us.rows) + 1 - i]])
                ELSE df_us
    /\ UNCHANGED <<confirmed_src, deaths_src, day, data_loaded, output, loaded_day>>

\* plot_total_cases (lines 102-112) and plot_new_cases (lines 114-124): the line
\* chart of one column over date, in row order.
PlotSeries(op, name) ==
    /\ event' = IF data_loaded
                THEN Event(op, "plot",
                           [i \in 1..Len(df_us.rows) |->
                               <<df_us.rows[i].date, ColumnOf(df_us.rows, name)[i]>>])
                ELSE Event(op, "nothing", <<>>)
    /\ UNCHANGED <<confirmed_src, deaths_src, day, data_loaded, df_us, output, loaded_day>>

PlotTotalCases == PlotSeries("plot_total_cases", "total_cases")

PlotNewCases == PlotSeries("plot_new_cases", "new_cases")

\* plot_correlation, lines 126-133: the four numeric columns handed to corr().
\* The coefficients themselves are real numbers and are not computed here.
PlotCorrelation ==
    /\ event' = IF data_loaded
                THEN Event("plot_correlation", "plot",
                           [i \in 1..Len(df_us.rows) |->
                               <<df_us.rows[i].total_cases, df_us.rows[i].new_cases,
                                 df_us.rows[i].total_deaths, df_us.rows[i].new_deaths>>])
                ELSE Event("plot_correlation", "nothing", <<>>)
    /\ UNCHANGED <<confirmed_src, deaths_src, day, data_loaded, df_us, output, loaded_day>>

\* plot_bar, lines 135-144: the two maxima as the two bars.
PlotBar ==
    /\ event' = IF data_loaded
                THEN Event("plot_bar", "plot",
                           <<MaxOf(ColumnOf(df_us.rows, "total_cases")),
                             MaxOf(ColumnOf(df_us.rows, "total_deaths"))>>)
                ELSE Event("plot_bar", "nothing", <<>>)
    /\ UNCHANGED <<confirmed_src, deaths_src, day, data_loaded, df_us, output, loaded_day>>

Next ==
    \/ Publish
    \/ Load
    \/ ShowSummary
    \/ PlotTotalCases
    \/ PlotNewCases
    \/ PlotCorrelation
    \/ PlotBar

Spec == Init /\ [][Next]_vars

(***************************************************************************)
(* Properties.                                                             *)
(***************************************************************************)
\* The two raw tables the table now held was loaded from.
LoadedConfirmed == Remote(confirmed_src, loaded_day)
LoadedDeaths == Remote(deaths_src, loaded_day)

HasRegion(t) == \E i \in 1..Len(t.rows) : t.rows[i].country = "US"

\* The calendar dates of a raw table's date columns.
DateColumns(t) ==
    {Strptime(t.columns[j]) : j \in {k \in 1..Len(t.columns) : t.columns[k].name \notin Dropped}}

RowDates == {df_us.rows[i].date : i \in 1..Len(df_us.rows)}

Rows == 1..Len(df_us.rows)

Max0(x) == IF x < 0 THEN 0 ELSE x

\* The last handler was a read and answered "not ready": the warning text is what
\* the output widget shows.
NotReady == event.effect = "text" /\ output = NotReadyText

\* C1: after a successful load from two tables that both hold the region and share
\* a date, the dates of the prepared table are exactly the dates both tables have.
C1_DatesAreIntersection ==
    (/\ data_loaded
     /\ HasRegion(LoadedConfirmed) /\ HasRegion(LoadedDeaths)
     /\ DateColumns(LoadedConfirmed) \cap DateColumns(LoadedDeaths) # {})
    => RowDates = DateColumns(LoadedConfirmed) \cap DateColumns(LoadedDeaths)

\* A loaded table whose sources each have a date the other lacks, and share one.
C1_Witness ==
    /\ data_loaded
    /\ HasRegion(LoadedConfirmed) /\ HasRegion(LoadedDeaths)
    /\ DateColumns(LoadedConfirmed) \cap DateColumns(LoadedDeaths) # {}
    /\ DateColumns(LoadedConfirmed) \ DateColumns(LoadedDeaths) # {}
    /\ DateColumns(LoadedDeaths) \ DateColumns(LoadedConfirmed) # {}
    /\ Len(df_us.rows) > 0

\* C2: after a successful load the rows are in ascending date order, whatever the
\* order of the date columns in the raw tables.
C2_SortedAscending ==
    data_loaded =>
        \A i \in Rows : i < Len(df_us.rows) => df_us.rows[i].date <= df_us.rows[i + 1].date

\* C3 as claimed: new_cases is 0 in the first row and max(0, total_cases[i] -
\* total_cases[i-1]) in every other, on the totals the final table stores; the same
\* for new_deaths.
C3_DeltasOfStoredTotals ==
    data_loaded =>
        \A i \in Rows :
            /\ df_us.rows[i].new_cases =
                  Some(IF i = 1 THEN 0
                       ELSE Max0(df_us.rows[i].total_cases[1] - df_us.rows[i - 1].total_cases[1]))
            /\ df_us.rows[i].new_deaths =
                  Some(IF i = 1 THEN 0
                       ELSE Max0(df_us.rows[i].total_deaths[1] - df_us.rows[i - 1].total_deaths[1]))

\* C3 as amended: the delta is max(0, total[i] - total[i-1]) where the source had
\* both totals, and 0 in the first row and wherever the source lacked one of the
\* two (the stored total is then 0); no delta is negative.
C3_DeltasOfSourceTotals ==
    data_loaded =>
        LET src == Merged(LoadedConfirmed, LoadedDeaths)
        IN  /\ Len(src) = Len(df_us.rows)
            /\ \A i \in Rows :
                /\ df_us.rows[i].total_cases =
                      (IF IsNaN(src[i].total_cases) THEN Some(0) ELSE src[i].total_cases)
                /\ df_us.rows[i].total_deaths =
                      (IF IsNaN(src[i].total_deaths) THEN Some(0) ELSE src[i].total_deaths)
                /\ df_us.rows[i].new_cases =
                      Some(IF i = 1 \/ IsNaN(src[i].total_cases) \/ IsNaN(src[i - 1].total_cases)
                           THEN 0
                           ELSE Max0(df_us.rows[i].total_cases[1]
                                     - df_us.rows[i - 1].total_cases[1]))
                /\ df_us.rows[i].new_deaths =
                      Some(IF i = 1 \/ IsNaN(src[i].total_deaths) \/ IsNaN(src[i - 1].total_deaths)
                           THEN 0
                           ELSE Max0(df_us.rows[i].total_deaths[1]
                                     - df_us.rows[i - 1].total_deaths[1]))
                /\ df_us.rows[i].new_cases[1] >= 0
                /\ df_us.rows[i].new_deaths[1] >= 0

\* A loaded table with a total the source lacked, followed by a positive total
\* whose delta is 0, and with a decrease between two totals the source had.
C3_Witness ==
    /\ data_loaded
    /\ LET src == Merged(LoadedConfirmed, LoadedDeaths)
       IN  /\ \E i \in Rows : /\ i > 1
                              /\ IsNaN(src[i - 1].total_cases)
                              /\ df_us.rows[i].total_cases[1] > 0
                              /\ df_us.rows[i].new_cases = Some(0)
           /\ \E i \in Rows : /\ i > 1
                              /\ ~IsNaN(src[i].total_cases) /\ ~IsNaN(src[i - 1].total_cases)
                              /\ src[i].total_cases[1] < src[i - 1].total_cases[1]
                              /\ df_us.rows[i].new_cases = Some(0)

\* C4: when the region is absent from either raw table the load installs an empty
\* table, and every read after it answers "not ready".
C4_AbsentRegionNotReady ==
    (data_loaded /\ (~HasRegion(LoadedConfirmed) \/ ~HasRegion(LoadedDeaths)))
    => /\ df_us.rows = <<>>
       /\ event.op \in ReadOps => NotReady

\* C5: a load that fails shows one error dialog and leaves df_us and data_loaded
\* as they were; a load fails whenever the pipeline cannot be run on the files.
C5_FailedLoadKeepsState ==
    [][/\ (event'.op = "load" /\ event'.effect = "dialog")
            => (df_us' = df_us /\ data_loaded' = data_loaded)
       /\ (event'.op = "load" /\ day' = day
             /\ ~Prepare(Remote(confirmed_src, day), Remote(deaths_src, day), "ok").ok)
            => (event'.effect = "dialog" /\ df_us' = df_us /\ data_loaded' = data_loaded)]_vars

\* A load failed on a date that does not parse, after an earlier load succeeded:
\* the earlier table is still held.
C5_Witness ==
    /\ event = Event("load", "dialog", <<"ValueError">>)
    /\ data_loaded
    /\ Len(df_us.rows) > 0
    /\ loaded_day < day

\* C6: before any load has succeeded, every read answers with the visible
\* "not ready" text.
C6_ReadsBeforeLoadNotReady ==
    (~data_loaded /\ event.op \in ReadOps) => NotReady

\* C7: a read leaves df_us and data_loaded unchanged, and a read repeated right
\* after itself shows the same again.
C7_ReadsChangeNothing ==
    [][event'.op \in ReadOps
        => /\ df_us' = df_us /\ data_loaded' = data_loaded
           /\ event.op = event'.op => (event' = event /\ output' = output)]_vars

\* A read has plotted a loaded table of several rows.
C7_Witness ==
    /\ data_loaded
    /\ event.op = "plot_new_cases" /\ event.effect = "plot"
    /\ Len(event.value) > 1

RECURSIVE C8_Sum(_, _)
C8_Sum(col, n) == IF n = 0 THEN 0 ELSE col[n][1] + C8_Sum(col, n - 1)

C8_IsMax(v, col) ==
    /\ \E i \in 1..Len(col) : col[i] = Some(v)
    /\ \A i \in 1..Len(col) : col[i][1] <= v

\* C8: on a table with rows the summary shows the largest total_cases, the largest
\* total_deaths and the mean of new_cases over all rows to the nearest hundredth
\* (30, 3 and 6.67 for totals 10,20,30 and 1,2,3), and the bar chart the same two
\* maxima.
C8_SummaryValues ==
    LET tc == ColumnOf(df_us.rows, "total_cases")
        td == ColumnOf(df_us.rows, "total_deaths")
        nc == ColumnOf(df_us.rows, "new_cases")
        n == Len(df_us.rows)
        d == n * output.avg_new_cases - 100 * C8_Sum(nc, n)
    IN  (data_loaded /\ n > 0)
        => /\ event.op = "show_summary"
              => /\ event.effect = "text"
                 /\ output.kind = "Summary of Findings"
                 /\ C8_IsMax(output.total_cases, tc)
                 /\ C8_IsMax(output.total_deaths, td)
                 /\ 2 * d <= n /\ 2 * d >= 0 - n
                 /\ (tc = <<Some(10), Some(20), Some(30)>> /\ td = <<Some(1), Some(2), Some(3)>>)
                      => output = SummaryText(30, 3, 667)
           /\ event.op = "plot_bar"
              => /\ event.effect = "plot"
                 /\ Len(event.value) = 2
                 /\ C8_IsMax(event.value[1][1], tc)
                 /\ C8_IsMax(event.value[2][1], td)

\* The summary of the table with totals 10,20,30 and 1,2,3 is on display.
C8_Witness ==
    /\ data_loaded
    /\ event.op = "show_summary"
    /\ ColumnOf(df_us.rows, "total_cases") = <<Some(10), Some(20), Some(30)>>
    /\ ColumnOf(df_us.rows, "total_deaths") = <<Some(1), Some(2), Some(3)>>
    /\ ColumnOf(df_us.rows, "new_cases") = <<Some(0), Some(10), Some(10)>>
    /\ output.avg_new_cases = 667

\* C9: after a successful load no two rows have the same date.
C9_DateIsUniqueKey ==
    data_loaded =>
        \A i, j \in Rows : i # j => df_us.rows[i].date # df_us.rows[j].date

====
